---- MODULE Spec2Model ----
(***************************************************************************)
(* Model of the binary-only address-sanitizing allocator of libafl_frida   *)
(* (src/libafl_frida/src/alloc.rs): the live index, the reuse queue, the   *)
(* raw mappings, the shadow bytes and the error registry the allocator     *)
(* reports into.                                                           *)
(*                                                                         *)
(* Addresses are scaled down: the page size is 16 bytes instead of 4096    *)
(* and the shadow bit is 8 instead of ~47, so that the shadow bytes of     *)
(* every mapping can be enumerated.  One shadow byte still covers eight    *)
(* user bytes, exactly as in the source.                                   *)
(***************************************************************************)
EXTENDS Integers, Sequences, FiniteSets, TLC

\* ------------------------------------------------------------------ bounds
\* Number of executions of the harness in one run of the fuzzing loop.
MaxExecutions == 3
\* Length of the corpus entries and of the mutated inputs of the minimiser.
MaxInputLen == 2
\* The `runs` a minimising stage is constructed with.
MaxRuns == 2
\* Number of instructions of the basic blocks handed to the transformer.
MaxBlockLen == 2
\* Number of raw mappings the model lets alloc create (the source has none).
MaxMappings == 1
\* Number of entries the model lets the error registry hold.
MaxErrors == 1

\* ------------------------------------------------------- platform constants
\* MmapOptions::page_size(), scaled (alloc.rs:105).
page_size == 16
\* MmapOptions::allocation_granularity() (alloc.rs:278); equals the page size
\* on Linux.
allocation_granularity == page_size
\* The shadow bit fixed by Allocator::new (alloc.rs:170), scaled.
shadow_bit == 8
\* alloc.rs:182
shadow_offset == 2 ^ shadow_bit
\* alloc.rs:190
base_mapping_addr == 2 ^ shadow_bit + 2 ^ shadow_bit

\* Sizes the guest asks for: zero, a size that is no multiple of 8, exactly
\* one page (and the largest size the options allow), one above that cap.
Sizes == {0, 3, 16, 17}

\* The FuzzerOptions the allocator is built with.
Configs ==
  { [max_allocation |-> 16, max_total_allocation |-> 112,
     max_allocation_panics |-> FALSE, allocation_backtraces |-> FALSE],
    [max_allocation |-> 16, max_total_allocation |-> 160,
     max_allocation_panics |-> TRUE, allocation_backtraces |-> TRUE],
    [max_allocation |-> 0, max_total_allocation |-> 112,
     max_allocation_panics |-> FALSE, allocation_backtraces |-> FALSE] }

VARIABLES
  options,                \* Allocator.options
  allocations,            \* Allocator.allocations: user pointer -> metadata
  allocation_queue,       \* Allocator.allocation_queue: actual_size -> Vec
  mappings,               \* Allocator.mappings: raw base -> mapped length
  shadow,                 \* the shadow bytes that are not 0x00
  largest_allocation,     \* Allocator.largest_allocation
  total_allocation_size,  \* Allocator.total_allocation_size
  current_mapping_addr,   \* Allocator.current_mapping_addr
  errors,                 \* the AsanErrors registry, in insertion order
  panicked,               \* a panic!() unwound out of the allocator
  last,                   \* the call that produced this state
  released_then_reset,    \* p when the latest calls were the first
                          \* release(p) of a live p, then reset(), then
                          \* possibly release(p) again; else 0
  released_size,          \* the size p's record had when it was released,
                          \* while released_then_reset = p; else 0
  probe,                  \* the shadow-bit probing of Allocator::new and one
                          \* map_to_shadow! on its result, for a process
                          \* layout other than the one above
  helper,                 \* a FridaInstrumentationHelper: its construction
                          \* and one call of its transformer callback
  fuzzer                  \* the fuzzing loop of the unitfuzzer client: the
                          \* latest execution and what the objective made
                          \* of it

vars == <<options, allocations, allocation_queue, mappings, shadow,
          largest_allocation, total_allocation_size, current_mapping_addr,
          errors, panicked, last, released_then_reset, released_size,
          probe, helper, fuzzer>>

\* Everything the Allocator struct owns.
allocator == <<allocations, allocation_queue, mappings, shadow,
               largest_allocation, total_allocation_size,
               current_mapping_addr>>

\* ----------------------------------------------------------------- helpers
Max(a, b) == IF a >= b THEN a ELSE b

\* A map without keys (HashMap::new(), BTreeMap::new()).
EmptyMap == [k \in {} |-> 0]

RECURSIVE BitAnd(_, _)
\* The & of two non-negative integers.
BitAnd(a, b) ==
  IF a = 0 \/ b = 0 THEN 0
  ELSE (a % 2) * (b % 2) + 2 * BitAnd(a \div 2, b \div 2)

\* A record of one call: what was called, with which argument, what it
\* returned (0 is the null pointer), how many registry entries it pushed,
\* and whether the operating system refused it a memory mapping.
Call(op, arg, ret, pushed) ==
  [op |-> op, arg |-> arg, ret |-> ret, pushed |-> pushed, refused |-> FALSE]

Refused(call) == [call EXCEPT !.refused = TRUE]

NoCall == Call("new", 0, 0, 0)

\* AllocationMetadata::default() (alloc.rs:64-80); a backtrace is modelled by
\* whether it is present.
DefaultMetadata ==
  [address |-> 0, size |-> 0, actual_size |-> 0,
   allocation_site_backtrace |-> FALSE, release_site_backtrace |-> FALSE,
   freed |-> FALSE, is_malloc_zero |-> FALSE]

\* alloc.rs:57-61, for an allocator `self` with the fields shadow_offset and
\* shadow_bit.
map_to_shadow_self(self, address) ==
  self.shadow_offset
    + BitAnd(address \div 8, 2 ^ (self.shadow_bit + 1) - 1)

\* alloc.rs:57-61, for the allocator of this model.
map_to_shadow(address) ==
  map_to_shadow_self([shadow_offset |-> shadow_offset,
                      shadow_bit |-> shadow_bit], address)

\* alloc.rs:203-205
round_up_to_page(size) == ((size + page_size) \div page_size) * page_size

\* alloc.rs:209-211
round_down_to_page(value) == (value \div page_size) * page_size

\* A read of one shadow byte.  The shadow reservation reads 0x00 wherever
\* nothing else was written, so `shadow` lists only the other bytes.
ShadowRead(sh, a) == IF a \in DOMAIN sh THEN sh[a] ELSE 0

\* Writing `value` to the shadow bytes `range`.
ShadowFill(sh, range, value) ==
  IF value = 0
  THEN [a \in DOMAIN sh \ range |-> sh[a]]
  ELSE [a \in DOMAIN sh \cup range |-> IF a \in range THEN value ELSE sh[a]]

\* alloc.rs:416-428
unpoison(sh, start, size) ==
  LET whole == ShadowFill(sh, start .. (start + size \div 8 - 1), 255)
      remainder == size % 8
  IN IF remainder > 0
     THEN ShadowFill(whole, {start + size \div 8},
                     (255 * 2 ^ (8 - remainder)) % 256)
     ELSE whole

\* alloc.rs:431-443
poison(sh, start, size) ==
  LET whole == ShadowFill(sh, start .. (start + size \div 8 - 1), 0)
      remainder == size % 8
  IN IF remainder > 0
     THEN ShadowFill(whole, {start + size \div 8}, 0)
     ELSE whole

\* alloc.rs:446-492, the branch with a pre-allocated shadow reservation:
\* committing the shadow bytes of the region leaves their contents alone;
\* then they are optionally unpoisoned.
map_shadow_for_region(sh, start, end, do_unpoison) ==
  LET shadow_mapping_start == map_to_shadow(start)
  IN IF end - start = 0 THEN sh
     ELSE IF do_unpoison THEN unpoison(sh, shadow_mapping_start, end - start)
     ELSE sh

\* find_smallest_fit that gives up when the first class that is large
\* enough has an empty list.
find_smallest_fit_FirstClass(queue, size) ==
  LET classes == {k \in DOMAIN queue : k >= size}
  IN IF classes = {}
     THEN [found |-> FALSE, metadata |-> DefaultMetadata, queue |-> queue]
     ELSE LET k == CHOOSE k \in classes : \A j \in classes : k <= j
              list == queue[k]
          IN IF Len(list) = 0
             THEN [found |-> FALSE, metadata |-> DefaultMetadata,
                   queue |-> queue]
             ELSE [found |-> TRUE,
                   metadata |-> list[Len(list)],
                   queue |-> [queue EXCEPT
                                ![k] = SubSeq(list, 1, Len(list) - 1)]]

\* find_smallest_fit that hands out the last element without popping it.
find_smallest_fit_NoPop(queue, size) ==
  LET fits == {k \in DOMAIN queue : k >= size /\ Len(queue[k]) > 0}
  IN IF fits = {}
     THEN [found |-> FALSE, metadata |-> DefaultMetadata, queue |-> queue]
     ELSE LET k == CHOOSE k \in fits : \A j \in fits : k <= j
          IN [found |-> TRUE,
              metadata |-> queue[k][Len(queue[k])],
              queue |-> queue]

\* alloc.rs:213-222: the queue is walked in ascending key order and the first
\* list that is long enough and not empty gives up its last element.
find_smallest_fit(queue, size) ==
  LET fits == {k \in DOMAIN queue : k >= size /\ Len(queue[k]) > 0}
  IN IF fits = {}
     THEN [found |-> FALSE, metadata |-> DefaultMetadata, queue |-> queue]
     ELSE LET k == CHOOSE k \in fits : \A j \in fits : k <= j
              list == queue[k]
          IN [found |-> TRUE,
              metadata |-> list[Len(list)],
              queue |-> [queue EXCEPT ![k] = SubSeq(list, 1, Len(list) - 1)]]

\* AsanErrors::report_error: the registry keeps its entries in insertion
\* order.  An entry is modelled by its kind and the address it carries.
report_error(registry, kind, addr) ==
  Append(registry, [kind |-> kind, addr |-> addr])

\* ------------------------------------------------------ shadow-bit probing
\* The largest end address of an occupied range inside the userspace window
\* (alloc.rs:113-135), in an address space scaled down to 7 bits.
UserspaceMaxes == {48, 112}

RECURSIVE MaxBitFrom(_, _)
\* alloc.rs:137-144: the first power from `power` on, below 64, with
\* 2^power > userspace_max; 0 when there is none.
MaxBitFrom(power, userspace_max) ==
  IF power >= 64 THEN 0
  ELSE IF 2 ^ power > userspace_max THEN power
  ELSE MaxBitFrom(power + 1, userspace_max)

\* alloc.rs:148
ShadowBitCandidates(maxbit) == <<maxbit, maxbit - 4, maxbit - 3, maxbit - 2>>

RECURSIVE TryShadowBits(_, _, _)
\* alloc.rs:148-176: the candidates are tried in order from index i on; the
\* overlap test only logs, and the first candidate whose reservation the
\* operating system grants becomes the shadow bit.  Without one the shadow
\* bit keeps its initial value 0 (alloc.rs:107).
TryShadowBits(candidates, granted, i) ==
  IF i > Len(candidates) THEN 0
  ELSE IF granted[i] THEN candidates[i]
  ELSE TryShadowBits(candidates, granted, i + 1)

\* No fuzzing loop is running.
NoFuzzer == [phase |-> "none"]

\* No helper was constructed.
NoHelper == [phase |-> "none"]

\* The start addresses an occupied range of the scaled address space has.
OccupiedStarts == {0, 40}

NoProbe ==
  [phase |-> "none", userspace_max |-> 0, occupied_ranges |-> <<>>,
   granted |-> <<>>, address |-> 0,
   shadow_bit |-> 0, shadow_offset |-> 0, pre_allocated_shadow |-> FALSE,
   shadow |-> 0]

\* ------------------------------------------------------------------- Init
\* Allocator::new (alloc.rs:178-192).
Init ==
  /\ options \in Configs
  /\ allocations = EmptyMap
  /\ allocation_queue = EmptyMap
  /\ mappings = EmptyMap
  /\ shadow = EmptyMap
  /\ largest_allocation = 0
  /\ total_allocation_size = 0
  /\ current_mapping_addr = base_mapping_addr
  /\ errors = <<>>
  /\ panicked = FALSE
  /\ last = NoCall
  /\ released_then_reset = 0
  /\ released_size = 0
  /\ probe = NoProbe
  /\ helper = NoHelper
  /\ fuzzer = NoFuzzer

\* The bookkeeping every call does in the model: remember the call.
Record(call) ==
  /\ last' = call
  /\ UNCHANGED <<probe, helper, fuzzer>>
  /\ released_then_reset' =
       IF call.op = "reset" /\ last.op = "release" /\ last.pushed = 0
       THEN last.arg
       ELSE IF call.op = "release" /\ last.op = "reset"
               /\ call.arg = released_then_reset
       THEN released_then_reset
       ELSE 0
  /\ released_size' =
       IF call.op = "reset" /\ last.op = "release" /\ last.pushed = 0
          /\ last.arg \in DOMAIN allocations
       THEN allocations[last.arg].size
       ELSE IF call.op = "release" /\ last.op = "reset"
               /\ call.arg = released_then_reset
       THEN released_size
       ELSE 0

\* ------------------------------------------------------------------ alloc
\* alloc.rs:230-237
AllocSize(size) == IF size = 0 THEN 16 ELSE size

\* The per-call cap compared with >= instead of >.
ExceedsMaxAllocation_OffByOne(size) ==
  AllocSize(size) >= options.max_allocation

\* alloc.rs:238
ExceedsMaxAllocation(size) == AllocSize(size) > options.max_allocation

\* alloc.rs:246
rounded_up_size(size) == round_up_to_page(AllocSize(size)) + 2 * page_size

\* The stride alloc advances current_mapping_addr by (alloc.rs:277-280).
\* An advance by the user size alone.
MappingStride_UserSize(size) == AllocSize(size)

MappingStride(size) ==
  ((rounded_up_size(size) + allocation_granularity)
     \div allocation_granularity) * allocation_granularity

\* The aggregate cap compared with >= instead of >.
ExceedsMaxTotalAllocation_OffByOne(size) ==
  total_allocation_size + rounded_up_size(size)
    >= options.max_total_allocation

\* alloc.rs:248
ExceedsMaxTotalAllocation(size) ==
  total_allocation_size + rounded_up_size(size) > options.max_total_allocation

\* alloc that reports the allocations it turns down.
AllocReport_NullReported(ret) ==
  IF ret = 0 THEN report_error(errors, "UnallocatedFree", 0) ELSE errors

\* alloc.rs:227-314: what alloc leaves in the registry when it returns
\* `ret`; no path of it calls report_error.
AllocReport(ret) == errors

\* alloc.rs:253-261: the metadata of a reused mapping.
ReusedMetadata(metadata, size) ==
  [metadata EXCEPT
     !.is_malloc_zero = (size = 0),
     !.size = AllocSize(size),
     !.allocation_site_backtrace =
        IF options.allocation_backtraces THEN TRUE ELSE @]

\* A fresh mapping with room for one guard page only.
FreshMetadata_OneGuard(address, size) ==
  [DefaultMetadata EXCEPT
     !.address = address,
     !.size = AllocSize(size),
     !.actual_size = round_up_to_page(AllocSize(size)),
     !.allocation_site_backtrace = options.allocation_backtraces]

\* alloc.rs:287-300: the metadata of a fresh mapping at `address`.
FreshMetadata(address, size) ==
  [DefaultMetadata EXCEPT
     !.address = address,
     !.size = AllocSize(size),
     !.actual_size = rounded_up_size(size),
     !.allocation_site_backtrace = options.allocation_backtraces]

\* alloc.rs:303-313: unpoison the user region, index the record under the
\* user pointer and return that pointer.
AllocServe(size, metadata, sh) ==
  LET address == metadata.address + page_size
  IN /\ largest_allocation' = Max(largest_allocation, metadata.actual_size)
     /\ shadow' = unpoison(sh, map_to_shadow(address), AllocSize(size))
     /\ allocations' =
          [k \in DOMAIN allocations \cup {address} |->
             IF k = address THEN metadata ELSE allocations[k]]
     /\ errors' = AllocReport(address)
     /\ Record(Call("alloc", size, address, 0))

\* alloc.rs:227-314.  map_ok is whether the operating system grants the
\* fresh mapping at current_mapping_addr.
alloc(size, map_ok) ==
  /\ ~panicked
  /\ IF ExceedsMaxAllocation(size)
     THEN \* alloc.rs:238-245
          /\ panicked' = options.max_allocation_panics
          /\ errors' = AllocReport(0)
          /\ Record(Call("alloc", size, 0, 0))
          /\ UNCHANGED <<options, allocator>>
     ELSE IF ExceedsMaxTotalAllocation(size)
     THEN \* alloc.rs:248-250
          /\ errors' = AllocReport(0)
          /\ Record(Call("alloc", size, 0, 0))
          /\ UNCHANGED <<options, allocator, panicked>>
     ELSE LET fit == find_smallest_fit(allocation_queue, rounded_up_size(size))
          IN /\ total_allocation_size' =
                  total_allocation_size + rounded_up_size(size)
             /\ UNCHANGED <<options, panicked>>
             /\ IF fit.found
                THEN \* alloc.rs:253-260
                     /\ allocation_queue' = fit.queue
                     /\ AllocServe(size, ReusedMetadata(fit.metadata, size),
                                   shadow)
                     /\ UNCHANGED <<mappings, current_mapping_addr>>
                ELSE IF ~map_ok
                THEN \* alloc.rs:269-275
                     /\ errors' = AllocReport(0)
                     /\ Record(Refused(Call("alloc", size, 0, 0)))
                     /\ UNCHANGED <<allocations, allocation_queue, mappings,
                                    shadow, largest_allocation,
                                    current_mapping_addr>>
                ELSE \* alloc.rs:262-300
                     /\ Cardinality(DOMAIN mappings) < MaxMappings
                     /\ current_mapping_addr' =
                          current_mapping_addr + MappingStride(size)
                     /\ mappings' =
                          [a \in DOMAIN mappings \cup {current_mapping_addr} |->
                             IF a = current_mapping_addr
                             THEN rounded_up_size(size) ELSE mappings[a]]
                     /\ UNCHANGED allocation_queue
                     /\ AllocServe(size,
                          FreshMetadata(current_mapping_addr, size),
                          map_shadow_for_region(shadow, current_mapping_addr,
                            current_mapping_addr + rounded_up_size(size),
                            FALSE))

\* ---------------------------------------------------------------- release
\* release that does not look at the freed flag.
ReleaseReport_NoDoubleFree(ptr) ==
  IF ptr \notin DOMAIN allocations
  THEN IF ptr # 0
       THEN report_error(errors, "UnallocatedFree", ptr)
       ELSE errors
  ELSE errors

\* release that treats an unknown pointer like a null one.
ReleaseReport_UnknownIgnored(ptr) ==
  IF ptr \notin DOMAIN allocations
  THEN errors
  ELSE IF allocations[ptr].freed
       THEN report_error(errors, "DoubleFree", ptr)
       ELSE errors

\* release without the is_null() test.
ReleaseReport_NullReported(ptr) ==
  IF ptr \notin DOMAIN allocations
  THEN report_error(errors, "UnallocatedFree", ptr)
  ELSE IF allocations[ptr].freed
       THEN report_error(errors, "DoubleFree", ptr)
       ELSE errors

\* alloc.rs:320-333: what release(ptr) leaves in the registry.
ReleaseReport(ptr) ==
  IF ptr \notin DOMAIN allocations
  THEN IF ptr # 0
       THEN report_error(errors, "UnallocatedFree", ptr)
       ELSE errors
  ELSE IF allocations[ptr].freed
       THEN report_error(errors, "DoubleFree", ptr)
       ELSE errors

\* release that drops the record instead of flagging it.
ReleasedAllocations_Removed(ptr) ==
  [k \in DOMAIN allocations \ {ptr} |-> allocations[k]]

\* alloc.rs:336-339: the live index after release of a known pointer.
ReleasedAllocations(ptr) ==
  [allocations EXCEPT
     ![ptr].freed = TRUE,
     ![ptr].release_site_backtrace =
        IF options.allocation_backtraces THEN TRUE ELSE @]

\* alloc.rs:334,342: the shadow after release of a known pointer.
ReleasedShadow(ptr) ==
  poison(shadow, map_to_shadow(ptr), allocations[ptr].size)

\* alloc.rs:318-343
release(ptr) ==
  /\ ~panicked
  /\ Len(errors) < MaxErrors
  /\ errors' = ReleaseReport(ptr)
  /\ Record(Call("release", ptr, 0, Len(ReleaseReport(ptr)) - Len(errors)))
  /\ IF ptr \notin DOMAIN allocations
     THEN UNCHANGED <<options, allocator, panicked>>
     ELSE /\ allocations' = ReleasedAllocations(ptr)
          /\ shadow' = ReleasedShadow(ptr)
          /\ UNCHANGED <<options, allocation_queue, mappings,
                         largest_allocation, total_allocation_size,
                         current_mapping_addr, panicked>>

\* ---------------------------------------------------------- find_metadata
\* i64::max_value() (alloc.rs:354), scaled: above every distance between two
\* addresses of the model.
i64_max_value == 2 ^ 20

Abs(x) == IF x < 0 THEN -x ELSE x

Min(a, b) == IF a <= b THEN a ELSE b

RECURSIVE SortByAddress(_)
\* alloc.rs:352-353: the records of the live index, freed ones included, in
\* ascending order of their address field.
SortByAddress(keys) ==
  IF keys = {} THEN <<>>
  ELSE LET k == CHOOSE k \in keys :
                  \A j \in keys : allocations[k].address <= allocations[j].address
       IN <<allocations[k]>> \o SortByAddress(keys \ {k})

RECURSIVE FindClosest(_, _, _, _, _, _)
\* alloc.rs:356-368: the loop over the sorted records from index i on.  The
\* Option result is a set with at most one record.
FindClosest(metadatas, i, ptr, hint_base, offset_to_closest, closest) ==
  IF i > Len(metadatas) THEN closest
  ELSE LET metadata == metadatas[i]
           new_offset ==
             IF hint_base = metadata.address
             THEN Abs(ptr - metadata.address)
             ELSE Min(offset_to_closest, Abs(ptr - metadata.address))
       IN IF new_offset < offset_to_closest
          THEN FindClosest(metadatas, i + 1, ptr, hint_base,
                           new_offset, {metadata})
          ELSE FindClosest(metadatas, i + 1, ptr, hint_base,
                           offset_to_closest, closest)

\* find_metadata that returns the record the hint names when there is one.
find_metadata_HintWins(ptr, hint_base) ==
  LET metadatas == SortByAddress(DOMAIN allocations)
      hinted == {i \in 1 .. Len(metadatas) : metadatas[i].address = hint_base}
  IN IF hinted # {}
     THEN {metadatas[i] : i \in hinted}
     ELSE FindClosest(metadatas, 1, ptr, hint_base, i64_max_value, {})

\* alloc.rs:346-370
find_metadata(ptr, hint_base) ==
  FindClosest(SortByAddress(DOMAIN allocations), 1, ptr, hint_base,
              i64_max_value, {})

\* ------------------------------------------------------------------ reset
\* The orders in which HashMap::drain can yield the keys in S.
DrainOrders(S) ==
  {f \in [1 .. Cardinality(S) -> S] :
     \A i, j \in 1 .. Cardinality(S) : i # j => f[i] # f[j]}

\* alloc.rs:383-387
ResetMetadata(allocation) ==
  [allocation EXCEPT
     !.size = 0,
     !.freed = FALSE,
     !.allocation_site_backtrace = FALSE,
     !.release_site_backtrace = FALSE]

\* alloc.rs:390-393
QueuePush(queue, allocation) ==
  [k \in DOMAIN queue \cup {allocation.actual_size} |->
     IF k = allocation.actual_size
     THEN Append(IF k \in DOMAIN queue THEN queue[k] ELSE <<>>, allocation)
     ELSE queue[k]]

RECURSIVE ResetQueue(_, _, _)
\* alloc.rs:375-394: the queue after the freed records were drained in `order`.
ResetQueue(queue, order, i) ==
  IF i > Len(order) THEN queue
  ELSE ResetQueue(QueuePush(queue, ResetMetadata(allocations[order[i]])),
                  order, i + 1)

\* reset that leaves the shadow of the freed records as it finds it.
ResetShadow_NoPoison(sh, order, i) == sh

RECURSIVE ResetShadow(_, _, _)
\* alloc.rs:381: the shadow after the freed records were poisoned.
ResetShadow(sh, order, i) ==
  IF i > Len(order) THEN sh
  ELSE ResetShadow(poison(sh, map_to_shadow(order[i]),
                          allocations[order[i]].size),
                   order, i + 1)

\* reset that puts the freed records back into the live index too.
ResetAllocations_KeepFreed ==
  [a \in {allocations[k].address + page_size : k \in DOMAIN allocations} |->
     allocations[CHOOSE k \in DOMAIN allocations :
                   allocations[k].address + page_size = a]]

\* reset that puts the kept records back under their raw base address.
ResetAllocations_RawKey ==
  LET kept == {k \in DOMAIN allocations : ~allocations[k].freed}
  IN [a \in {allocations[k].address : k \in kept} |->
        allocations[CHOOSE k \in kept : allocations[k].address = a]]

\* alloc.rs:376-379,396-399: the records that stay in the live index, under
\* the key reset computes for them.
ResetAllocations ==
  LET kept == {k \in DOMAIN allocations : ~allocations[k].freed}
  IN [a \in {allocations[k].address + page_size : k \in kept} |->
        allocations[CHOOSE k \in kept : allocations[k].address + page_size = a]]

\* alloc.rs:373-402.  `order` is the order in which the drain meets the freed
\* records.
reset(order) ==
  /\ ~panicked
  /\ allocation_queue' = ResetQueue(allocation_queue, order, 1)
  /\ shadow' = ResetShadow(shadow, order, 1)
  /\ allocations' = ResetAllocations
  /\ total_allocation_size' = 0
  /\ Record(Call("reset", 0, 0, 0))
  /\ UNCHANGED <<options, mappings, largest_allocation, current_mapping_addr,
                 errors, panicked>>

\* -------------------------------------------------------- check_for_leaks
\* check_for_leaks that reports the freed records too.
LeakedKeys_FreedToo == DOMAIN allocations

\* alloc.rs:553-554: the keys of the records check_for_leaks reports.
LeakedKeys == {k \in DOMAIN allocations : ~allocations[k].freed}

RECURSIVE LeakReports(_, _, _)
\* alloc.rs:555-556: one Leak entry, carrying metadata.address, for each
\* record of `order` from index i on.
LeakReports(registry, order, i) ==
  IF i > Len(order) THEN registry
  ELSE LeakReports(report_error(registry, "Leak",
                                allocations[order[i]].address),
                   order, i + 1)

\* alloc.rs:552-559.  `order` is the order in which HashMap::values yields
\* the reported records.
check_for_leaks(order) ==
  /\ ~panicked
  /\ Len(errors) < MaxErrors
  /\ errors' = LeakReports(errors, order, 1)
  /\ Record(Call("check_for_leaks", 0, 0, Len(order)))
  /\ UNCHANGED <<options, allocator, panicked>>

\* ------------------------------------------- unpoison_all_existing_memory
RECURSIVE UnpoisonRanges(_, _)
\* alloc.rs:563-573 over the set `ranges` of read/write ranges.
UnpoisonRanges(sh, ranges) ==
  IF ranges = {} THEN sh
  ELSE LET start == CHOOSE a \in ranges : TRUE
       IN UnpoisonRanges(
            map_shadow_for_region(sh, start, start + mappings[start], TRUE),
            ranges \ {start})

\* alloc.rs:562-574.  The read/write ranges of the process that matter to the
\* allocator are its own raw mappings (MmapOptions::map_mut maps them
\* read/write); the shadow reservation is skipped.
unpoison_all_existing_memory ==
  /\ ~panicked
  /\ shadow' = UnpoisonRanges(shadow, DOMAIN mappings)
  /\ Record(Call("unpoison_all_existing_memory", 0, 0, 0))
  /\ UNCHANGED <<options, allocations, allocation_queue, mappings,
                 largest_allocation, total_allocation_size,
                 current_mapping_addr, errors, panicked>>

\* ------------------------------------------------------------ check_shadow
\* alloc.rs:504-543.  The result is the set of outcomes a build can produce:
\* when the leading misaligned byte passes and size < 8, `shadow_size -= 1`
\* underflows, which panics in a build with overflow checks and otherwise
\* makes the scanned slice span the address space.
check_shadow(address, size) ==
  IF size = 0 THEN {"true"}
  ELSE
    LET leading == BitAnd(address, 7)
        first == map_to_shadow(address)
    IN IF leading > 0 /\ BitAnd(ShadowRead(shadow, first), leading) # leading
       THEN {"false"}
       ELSE IF leading > 0 /\ size \div 8 = 0
       THEN {"panic", "false", "true"}
       ELSE
         LET shadow_addr == IF leading > 0 THEN first + 1 ELSE first
             shadow_size == IF leading > 0 THEN size \div 8 - 1 ELSE size \div 8
             shadow_remainder == size % 8
         IN IF \A i \in 0 .. shadow_size - 1 :
                 ShadowRead(shadow, shadow_addr + i) = 255
            THEN IF shadow_remainder > 0
                 THEN IF BitAnd(ShadowRead(shadow, shadow_addr + shadow_size),
                                shadow_remainder) = shadow_remainder
                      THEN {"true"} ELSE {"false"}
                 ELSE {"true"}
            ELSE {"false"}

\* ------------------------------------------------------------------- Next
\* A pointer the allocator never returned: inside the first user region.
WildPtr == base_mapping_addr + page_size + 8

\* The pointers the guest passes to free(): null, every user pointer the
\* allocator has ever returned, and a wild one.
Pointers == {0, WildPtr} \cup {a + page_size : a \in DOMAIN mappings}

Next ==
  \/ \E size \in Sizes, map_ok \in BOOLEAN : alloc(size, map_ok)
  \/ \E ptr \in Pointers : release(ptr)
  \/ \E order \in DrainOrders({k \in DOMAIN allocations : allocations[k].freed}) :
       reset(order)
  \/ unpoison_all_existing_memory

Spec == Init /\ [][Next]_vars

\* The allocator after alloc(3) and alloc(16) on a new allocator, both
\* served from fresh mappings (alloc.rs:262-313 run twice): two live
\* allocations in adjacent raw mappings.
InitTwoMappings ==
  LET first == base_mapping_addr
      second == first + MappingStride(3)
  IN /\ options \in {c \in Configs :
                       /\ c.max_allocation >= 16
                       /\ c.max_total_allocation >=
                            round_up_to_page(3) + round_up_to_page(16)
                              + 4 * page_size}
     /\ allocations = [k \in {first + page_size, second + page_size} |->
                         IF k = first + page_size
                         THEN FreshMetadata(first, 3)
                         ELSE FreshMetadata(second, 16)]
     /\ allocation_queue = EmptyMap
     /\ mappings = [a \in {first, second} |->
                      IF a = first THEN rounded_up_size(3)
                      ELSE rounded_up_size(16)]
     /\ shadow = unpoison(unpoison(EmptyMap,
                                   map_to_shadow(first + page_size), 3),
                          map_to_shadow(second + page_size), 16)
     /\ largest_allocation = Max(rounded_up_size(3), rounded_up_size(16))
     /\ total_allocation_size = rounded_up_size(3) + rounded_up_size(16)
     /\ current_mapping_addr = second + MappingStride(16)
     /\ errors = <<>>
     /\ panicked = FALSE
     /\ last = Call("alloc", 16, second + page_size, 0)
     /\ released_then_reset = 0
     /\ released_size = 0
     /\ probe = NoProbe
     /\ helper = NoHelper
     /\ fuzzer = NoFuzzer
  /\ helper = NoHelper
  /\ fuzzer = NoFuzzer

\* The allocator started either new or with two mappings already made, so
\* that states with several records are met whatever MaxMappings is.
SpecTwoMappings == (Init \/ InitTwoMappings) /\ [][Next]_vars

\* ------------------------------------------------- runs that end in a
\* leak check.  check_for_leaks is called at the end of a run, so it is an
\* action of this specification only.
NextCheckForLeaks ==
  \/ Next
  \/ \E order \in DrainOrders(LeakedKeys) : check_for_leaks(order)

SpecCheckForLeaks == (Init \/ InitTwoMappings) /\ [][NextCheckForLeaks]_vars

\* --------------------------------------------- map_to_shadow after probing
\* A process whose occupied ranges end at userspace_max builds an allocator;
\* occupied_ranges is the list of (start, end) pairs read from the memory
\* areas of the process (alloc.rs:113-120); `granted` says which of the four reservations the operating system would
\* grant; `address` is a userspace address of that process.
InitMapToShadow ==
  /\ options \in Configs
  /\ allocations = EmptyMap
  /\ allocation_queue = EmptyMap
  /\ mappings = EmptyMap
  /\ shadow = EmptyMap
  /\ largest_allocation = 0
  /\ total_allocation_size = 0
  /\ current_mapping_addr = base_mapping_addr
  /\ errors = <<>>
  /\ panicked = FALSE
  /\ last = NoCall
  /\ released_then_reset = 0
  /\ released_size = 0
  /\ \E userspace_max \in UserspaceMaxes :
       \E granted \in [1 .. 4 -> BOOLEAN] :
         \E address \in 0 .. (userspace_max - 1) :
          \E start \in OccupiedStarts :
           probe = [NoProbe EXCEPT !.phase = "start",
                                   !.userspace_max = userspace_max,
                                   !.occupied_ranges =
                                      <<<<start, userspace_max>>>>,
                                   !.granted = granted,
                                   !.address = address]
  /\ helper = NoHelper
  /\ fuzzer = NoFuzzer

\* Allocator::new (alloc.rs:104-193): the shadow bit and the shadow offset.
new ==
  /\ probe.phase = "start"
  /\ LET maxbit == MaxBitFrom(1, probe.userspace_max)
          bit == TryShadowBits(ShadowBitCandidates(maxbit), probe.granted, 1)
     IN probe' = [probe EXCEPT
                    !.phase = "new",
                    !.shadow_bit = bit,
                    !.shadow_offset = 2 ^ bit,
                    !.pre_allocated_shadow =
                       \E i \in DOMAIN probe.granted : probe.granted[i]]
  /\ UNCHANGED <<options, allocator, errors, panicked, last,
                 released_then_reset, released_size, helper, fuzzer>>

\* One use of map_to_shadow! (alloc.rs:57-61) on the probed address.
map_to_shadow_probe ==
  /\ probe.phase = "new"
  /\ probe' = [probe EXCEPT !.phase = "mapped",
                             !.shadow = map_to_shadow_self(probe, probe.address)]
  /\ UNCHANGED <<options, allocator, errors, panicked, last,
                 released_then_reset, released_size, helper, fuzzer>>

NextMapToShadow == new \/ map_to_shadow_probe

SpecMapToShadow == InitMapToShadow /\ [][NextMapToShadow]_vars

\* ------------------------------------------- FridaInstrumentationHelper
\* (src/libafl_frida/src/helper.rs, the x86_64 unix build.)
\* The runtimes the transformer looks for with match_first_type_mut.
Runtimes == {"CoverageRuntime", "AsanRuntime", "DrCovRuntime"}

\* The runtime tuples a helper is built with: every list of distinct
\* runtimes.
RuntimeTuples ==
  UNION {{t \in [1 .. n -> Runtimes] : \A i, j \in 1 .. n : i # j => t[i] # t[j]} :
           n \in 0 .. Cardinality(Runtimes)}

\* The code addresses of a small process: two of the harness, one of a
\* library, one of the fuzzer itself (Self::new) and one of no module.
ModuleRange(module) ==
  IF module = "harness" THEN {0, 1}
  ELSE IF module = "lib" THEN {2}
  ELSE IF module = "fuzzer" THEN {3}
  ELSE {}

OutsideAddress == 4

Addresses == {0, 1, 2, OutsideAddress}

\* The address of FridaInstrumentationHelper::new (helper.rs:222).
SelfNewAddress == 3

\* The instructions AsanRuntime::asan_is_interesting_instruction returns
\* Some for (helper.rs:290-295): the memory accesses.
InterestingAddresses == {1, 2}

\* The stalker test without the coverage option.
stalker_enabled_NoCoverage(opts) == opts.cmplog \/ opts.asan

\* helper.rs:423-425 and the same test at helper.rs:204.
stalker_enabled(opts) == opts.cmplog \/ opts.asan \/ ~opts.disable_coverage

\* helper.rs:191-199
modules_to_instrument(opts) == <<"harness">> \o opts.libs_to_instrument

\* helper.rs:205-218: the range map of the modules, without the addresses
\* listed in dont_instrument.
BuiltRanges(opts) ==
  LET modules == modules_to_instrument(opts)
      covered == UNION {ModuleRange(modules[i]) : i \in DOMAIN modules}
  IN [a \in covered \ opts.dont_instrument |->
        CHOOSE i \in DOMAIN modules : a \in ModuleRange(modules[i])]

RECURSIVE init_all(_, _, _, _)
\* helper.rs:93-102: init on the head of the tuple, then init_all on its
\* tail; the calls are listed in the order they are made.
init_all(runtimes, i, ranges, modules) ==
  IF i > Len(runtimes) THEN <<>>
  ELSE <<[runtime |-> runtimes[i], ranges |-> ranges, modules |-> modules]>>
         \o init_all(runtimes, i + 1, ranges, modules)

\* The options and the runtime tuple a helper is constructed from.
InitHelper ==
  /\ options \in Configs
  /\ allocations = EmptyMap
  /\ allocation_queue = EmptyMap
  /\ mappings = EmptyMap
  /\ shadow = EmptyMap
  /\ largest_allocation = 0
  /\ total_allocation_size = 0
  /\ current_mapping_addr = base_mapping_addr
  /\ errors = <<>>
  /\ panicked = FALSE
  /\ last = NoCall
  /\ released_then_reset = 0
  /\ released_size = 0
  /\ probe = NoProbe
  /\ fuzzer = NoFuzzer
  /\ \E cmplog \in BOOLEAN, asan \in BOOLEAN, disable_coverage \in BOOLEAN :
       \E libs \in {<<>>, <<"lib">>, <<"fuzzer">>} :
         \E dont_instrument \in {{}, {1}} :
           \E runtimes \in RuntimeTuples :
             helper = [phase |-> "start",
                       options |-> [cmplog |-> cmplog, asan |-> asan,
                                    disable_coverage |-> disable_coverage,
                                    libs_to_instrument |-> libs,
                                    dont_instrument |-> dont_instrument],
                       runtimes |-> runtimes,
                       ranges |-> EmptyMap,
                       inits |-> <<>>,
                       block |-> <<>>,
                       output |-> <<>>,
                       stalked |-> <<>>,
                       failing |-> {},
                       hooks |-> <<>>,
                       result |-> [kind |-> "none"],
                       cell |-> [borrows |-> 0, error |-> FALSE],
                       activity |-> [kind |-> "idle"]]

\* FridaInstrumentationHelper::new (helper.rs:165-373) up to the point where
\* the transformer is installed.
helper_new ==
  /\ helper.phase = "start"
  /\ IF stalker_enabled(helper.options)
     THEN LET ranges == BuiltRanges(helper.options)
          IN IF SelfNewAddress \in DOMAIN ranges
             THEN \* helper.rs:221-224
                  helper' = [helper EXCEPT !.phase = "panicked",
                                           !.ranges = ranges]
             ELSE \* helper.rs:226
                  helper' = [helper EXCEPT
                     !.phase = "built",
                     !.ranges = ranges,
                     !.inits = init_all(helper.runtimes, 1, ranges,
                                        modules_to_instrument(helper.options))]
     ELSE helper' = [helper EXCEPT !.phase = "built"]
  /\ UNCHANGED <<options, allocator, errors, panicked, last,
                 released_then_reset, released_size, probe, fuzzer>>

\* Whether the tuple holds a runtime (match_first_type_mut).
HasRuntime(rt) == \E i \in DOMAIN helper.runtimes : helper.runtimes[i] = rt

\* A transformer that keeps only the instructions it instruments.
KeepInstruction_OnlyInstrumented(address) ==
  IF address \in DOMAIN helper.ranges
  THEN <<[kind |-> "keep", address |-> address]>>
  ELSE <<>>

\* helper.rs:364
KeepInstruction(address) == <<[kind |-> "keep", address |-> address]>>

\* helper.rs:262-347,364: what the callback writes to the output for one
\* instruction; `first` is the flag of helper.rs:254.
EmitInstruction(address, first) ==
  (IF address \in DOMAIN helper.ranges
   THEN (IF first /\ HasRuntime("CoverageRuntime")
         THEN <<[kind |-> "coverage_mapping", address |-> address]>>
         ELSE <<>>)
        \o (IF first /\ HasRuntime("DrCovRuntime")
            THEN <<[kind |-> "callout", address |-> address]>>
            ELSE <<>>)
        \o (IF HasRuntime("AsanRuntime") /\ address \in InterestingAddresses
            THEN <<[kind |-> "shadow_check", address |-> address]>>
            ELSE <<>>)
   ELSE <<>>)
  \o KeepInstruction(address)

\* helper.rs:348-362: the add_stalked_address calls for one instruction.
StalkInstruction(address) ==
  IF address \in DOMAIN helper.ranges
  THEN (IF HasRuntime("AsanRuntime")
        THEN <<[runtime |-> "AsanRuntime", address |-> address]>> ELSE <<>>)
       \o (IF HasRuntime("DrCovRuntime")
           THEN <<[runtime |-> "DrCovRuntime", address |-> address]>>
           ELSE <<>>)
  ELSE <<>>

RECURSIVE TransformBlock(_, _, _)
\* helper.rs:253-366: the loop over the instructions of the block from
\* index i on; the result is the output stream and the stalked addresses.
TransformBlock(block, i, first) ==
  IF i > Len(block) THEN [output |-> <<>>, stalked |-> <<>>]
  ELSE LET rest == TransformBlock(block, i + 1,
                     first /\ block[i] \notin DOMAIN helper.ranges)
       IN [output |-> EmitInstruction(block[i], first) \o rest.output,
           stalked |-> StalkInstruction(block[i]) \o rest.stalked]

\* The basic blocks handed to the callback: the addresses of their
\* instructions.
Blocks == UNION {[1 .. n -> Addresses] : n \in 1 .. MaxBlockLen}

\* One call of the transformer callback (helper.rs:253-366).
transform(block) ==
  /\ helper.phase = "built"
  /\ helper' = [helper EXCEPT
                  !.phase = "transformed",
                  !.block = block,
                  !.output = TransformBlock(block, 1, TRUE).output,
                  !.stalked = TransformBlock(block, 1, TRUE).stalked]
  /\ UNCHANGED <<options, allocator, errors, panicked, last,
                 released_then_reset, released_size, probe, fuzzer>>

\* Result<(), Error> of a hook: Ok(()) or the Err of the runtime that failed.
Ok == [kind |-> "Ok"]

Err(runtime) == [kind |-> "Err", from |-> runtime]

RECURSIVE pre_exec_all_NoShortCircuit(_, _, _)
\* pre_exec_all that calls the hooks of the tail after an Err of the head.
pre_exec_all_NoShortCircuit(runtimes, i, failing) ==
  IF i > Len(runtimes) THEN [calls |-> <<>>, result |-> Ok]
  ELSE LET rest == pre_exec_all_NoShortCircuit(runtimes, i + 1, failing)
       IN [calls |-> <<[runtime |-> runtimes[i], hook |-> "pre_exec"]>>
                       \o rest.calls,
           result |-> IF runtimes[i] \in failing
                      THEN Err(runtimes[i]) ELSE rest.result]

RECURSIVE pre_exec_all(_, _, _)
\* helper.rs:81-83 for the empty tuple, helper.rs:104-107 for (Head, Tail):
\* pre_exec on the head, `?` on its result, then pre_exec_all on the tail.
\* `failing` holds the runtimes whose hook returns Err in this iteration.
pre_exec_all(runtimes, i, failing) ==
  IF i > Len(runtimes) THEN [calls |-> <<>>, result |-> Ok]
  ELSE IF runtimes[i] \in failing
  THEN [calls |-> <<[runtime |-> runtimes[i], hook |-> "pre_exec"]>>,
        result |-> Err(runtimes[i])]
  ELSE LET rest == pre_exec_all(runtimes, i + 1, failing)
       IN [calls |-> <<[runtime |-> runtimes[i], hook |-> "pre_exec"]>>
                       \o rest.calls,
           result |-> rest.result]

RECURSIVE post_exec_all(_, _, _)
\* helper.rs:84-86 and helper.rs:109-112.
post_exec_all(runtimes, i, failing) ==
  IF i > Len(runtimes) THEN [calls |-> <<>>, result |-> Ok]
  ELSE IF runtimes[i] \in failing
  THEN [calls |-> <<[runtime |-> runtimes[i], hook |-> "post_exec"]>>,
        result |-> Err(runtimes[i])]
  ELSE LET rest == post_exec_all(runtimes, i + 1, failing)
       IN [calls |-> <<[runtime |-> runtimes[i], hook |-> "post_exec"]>>
                       \o rest.calls,
           result |-> rest.result]

\* FridaInstrumentationHelper::pre_exec (helper.rs:413-415).
pre_exec(failing) ==
  /\ helper.phase = "built"
  /\ helper' = [helper EXCEPT
                  !.phase = "pre_exec",
                  !.failing = failing,
                  !.hooks = pre_exec_all(helper.runtimes, 1, failing).calls,
                  !.result = pre_exec_all(helper.runtimes, 1, failing).result]
  /\ UNCHANGED <<options, allocator, errors, panicked, last,
                 released_then_reset, released_size, probe, fuzzer>>

\* FridaInstrumentationHelper::post_exec (helper.rs:418-420).
post_exec(failing) ==
  /\ helper.phase = "built"
  /\ helper' = [helper EXCEPT
                  !.phase = "post_exec",
                  !.failing = failing,
                  !.hooks = post_exec_all(helper.runtimes, 1, failing).calls,
                  !.result = post_exec_all(helper.runtimes, 1, failing).result]
  /\ UNCHANGED <<options, allocator, errors, panicked, last,
                 released_then_reset, released_size, probe, fuzzer>>

NextHelper ==
  \/ helper_new
  \/ \E block \in Blocks : transform(block)
  \/ \E failing \in SUBSET Runtimes : pre_exec(failing)
  \/ \E failing \in SUBSET Runtimes : post_exec(failing)

SpecHelper == InitHelper /\ [][NextHelper]_vars

\* ------------------------------------- the Rc<RefCell<RT>> of the runtimes
\* (helper.rs:247,251: one cell, shared by the helper and the callback.)
\* helper.cell is the borrow state of the cell, helper.activity what the one
\* thread of the client is executing: the fuzzing loop ("idle", the guest
\* included), a method of the helper, or the transformer callback.
\* RefCell::borrow_mut: a second mutable borrow is BorrowMutError, a panic.
borrow_mut(cell) ==
  IF cell.borrows # 0 THEN [cell EXCEPT !.error = TRUE]
  ELSE [cell EXCEPT !.borrows = 1]

\* A RefMut that is never dropped.
drop_Leaked(cell) == cell

\* The RefMut goes out of scope: at the end of the statement in the methods
\* (helper.rs:406-408,414,419,429-432), at the end of the `if` body in the
\* callback (helper.rs:263,363).
drop(cell) == [cell EXCEPT !.borrows = cell.borrows - 1]

\* The methods of the helper that borrow the cell (helper.rs:400-433).
Methods == {"init", "pre_exec", "post_exec", "map_mut_ptr"}

\* A method is called from the fuzzing loop and takes its borrow.
MethodBorrow(method) ==
  /\ helper.phase = "built"
  /\ helper.activity.kind = "idle"
  /\ ~helper.cell.error
  /\ helper' = [helper EXCEPT
                  !.cell = borrow_mut(helper.cell),
                  !.activity = [kind |-> "method", name |-> method]]
  /\ UNCHANGED <<options, allocator, errors, panicked, last,
                 released_then_reset, released_size, probe, fuzzer>>

\* The method returns; its RefMut is dropped.
MethodReturn ==
  /\ helper.activity.kind = "method"
  /\ ~helper.cell.error
  /\ helper' = [helper EXCEPT !.cell = drop(helper.cell),
                              !.activity = [kind |-> "idle"]]
  /\ UNCHANGED <<options, allocator, errors, panicked, last,
                 released_then_reset, released_size, probe, fuzzer>>

\* The guest reaches a block that is not translated yet and the engine
\* calls the callback on the thread of the guest (helper.rs:253-255).
CallbackEnter(block) ==
  /\ helper.phase = "built"
  /\ helper.activity.kind = "idle"
  /\ ~helper.cell.error
  /\ helper' = [helper EXCEPT
                  !.activity = [kind |-> "callback", block |-> block,
                                i |-> 1, holding |-> FALSE]]
  /\ UNCHANGED <<options, allocator, errors, panicked, last,
                 released_then_reset, released_size, probe, fuzzer>>

\* helper.rs:262-263: the instruction is in the ranges, the callback takes
\* its borrow.
CallbackBorrow ==
  /\ helper.activity.kind = "callback"
  /\ ~helper.cell.error
  /\ helper.activity.i <= Len(helper.activity.block)
  /\ ~helper.activity.holding
  /\ helper.activity.block[helper.activity.i] \in DOMAIN helper.ranges
  /\ helper' = [helper EXCEPT !.cell = borrow_mut(helper.cell),
                              !.activity.holding = TRUE]
  /\ UNCHANGED <<options, allocator, errors, panicked, last,
                 released_then_reset, released_size, probe, fuzzer>>

\* helper.rs:363-364: the end of the `if` body, instruction.keep(), and the
\* next instruction of the block.
CallbackNext ==
  /\ helper.activity.kind = "callback"
  /\ ~helper.cell.error
  /\ helper.activity.i <= Len(helper.activity.block)
  /\ \/ helper.activity.holding
     \/ helper.activity.block[helper.activity.i] \notin DOMAIN helper.ranges
  /\ helper' = [helper EXCEPT
                  !.cell = IF helper.activity.holding
                           THEN drop(helper.cell) ELSE helper.cell,
                  !.activity.holding = FALSE,
                  !.activity.i = helper.activity.i + 1]
  /\ UNCHANGED <<options, allocator, errors, panicked, last,
                 released_then_reset, released_size, probe, fuzzer>>

\* helper.rs:365-366: the block is done, the guest goes on.
CallbackReturn ==
  /\ helper.activity.kind = "callback"
  /\ helper.activity.i > Len(helper.activity.block)
  /\ helper' = [helper EXCEPT !.activity = [kind |-> "idle"]]
  /\ UNCHANGED <<options, allocator, errors, panicked, last,
                 released_then_reset, released_size, probe, fuzzer>>

\* Helpers with coverage as their only reason to instrument.
InitBorrow ==
  /\ InitHelper
  /\ ~helper.options.cmplog
  /\ ~helper.options.asan
  /\ helper.options.libs_to_instrument = <<>>

NextBorrow ==
  \/ helper_new
  \/ \E method \in Methods : MethodBorrow(method)
  \/ MethodReturn
  \/ \E block \in Blocks : CallbackEnter(block)
  \/ CallbackBorrow
  \/ CallbackNext
  \/ CallbackReturn

SpecBorrow == InitBorrow /\ [][NextBorrow]_vars

\* ------------------------------------------------- the unitfuzzer client
\* (src/fuzzers/unitfuzzer/src/fuzzer.rs; the feedbacks are LibAFL's.)
ExitKinds == {"Ok", "Crash", "Timeout"}

\* The kinds of entry an execution can leave in the registry.
ErrorKinds == {"UnallocatedFree", "DoubleFree", "Leak", "OutOfBounds"}

\* The registries an execution can leave behind.
Registries ==
  UNION {[1 .. n -> {[kind |-> k, addr |-> 0] : k \in ErrorKinds}] :
           n \in 0 .. MaxErrors}

CrashFeedback(exit_kind) == exit_kind = "Crash"

TimeoutFeedback(exit_kind) == exit_kind = "Timeout"

ConstFeedback(value) == value

\* True when the observed registry holds an entry.
AsanErrorsFeedback(registry) == registry # <<>>

\* The short-circuit conjunction and disjunction of two feedbacks.
feedback_and_fast(a, b) == a /\ b

feedback_or_fast(a, b) == a \/ b

\* fuzzer.rs:235-239
objective(exit_kind, registry) ==
  feedback_or_fast(CrashFeedback(exit_kind),
    feedback_or_fast(TimeoutFeedback(exit_kind),
      feedback_and_fast(ConstFeedback(FALSE), AsanErrorsFeedback(registry))))

\* The client before its first execution (fuzzer.rs:171-309).
InitFuzz ==
  /\ options \in Configs
  /\ allocations = EmptyMap
  /\ allocation_queue = EmptyMap
  /\ mappings = EmptyMap
  /\ shadow = EmptyMap
  /\ largest_allocation = 0
  /\ total_allocation_size = 0
  /\ current_mapping_addr = base_mapping_addr
  /\ errors = <<>>
  /\ panicked = FALSE
  /\ last = NoCall
  /\ released_then_reset = 0
  /\ released_size = 0
  /\ probe = NoProbe
  /\ helper = NoHelper
  /\ fuzzer = [phase |-> "ready", exit_kind |-> "Ok", is_solution |-> FALSE,
               executions |-> 0, solutions |-> 0]

\* One execution of the harness by the executor.  frida_harness itself
\* returns ExitKind::Ok (fuzzer.rs:187-192); a crash or a timeout is what
\* the executor's signal handlers make of the execution.  The registry is
\* cleared before the execution and holds what the execution pushed.
run_target(exit_kind, registry) ==
  /\ fuzzer.phase = "ready"
  /\ fuzzer.executions < MaxExecutions
  /\ fuzzer' = [fuzzer EXCEPT !.phase = "executed", !.exit_kind = exit_kind]
  /\ errors' = registry
  /\ UNCHANGED <<options, allocator, panicked, last, released_then_reset,
                 released_size, probe, helper>>

\* The fuzzer asks the objective whether the execution is a solution
\* (fuzzer.rs:235-239, 275) and stores a solution in the solutions corpus
\* (fuzzer.rs:255).
evaluate_objective ==
  /\ fuzzer.phase = "executed"
  /\ fuzzer' = [fuzzer EXCEPT
                  !.phase = "ready",
                  !.is_solution = objective(fuzzer.exit_kind, errors),
                  !.executions = @ + 1,
                  !.solutions =
                     IF objective(fuzzer.exit_kind, errors) THEN @ + 1 ELSE @]
  /\ UNCHANGED <<options, allocator, errors, panicked, last,
                 released_then_reset, released_size, probe, helper>>

NextFuzz ==
  \/ \E exit_kind \in ExitKinds, registry \in Registries :
       run_target(exit_kind, registry)
  \/ evaluate_objective

SpecFuzz == InitFuzz /\ [][NextFuzz]_vars

\* ------------------------------------- TMinMutationalStage (stages/tmin.rs)
\* The inputs: byte strings over two byte values.
Inputs == UNION {[1 .. n -> {0, 1}] : n \in 0 .. MaxInputLen}

\* The values the hash of the observed map takes.
MapHashes == {0, 1}

\* The value state.max_size() has when the stage is entered: no corpus
\* entry is longer.
MaxSizes == {MaxInputLen + 1}

RECURSIVE HashBytes(_, _)
\* Hash::hash of an input into the hasher: its bytes, position by position.
HashBytes(input, k) ==
  IF k > Len(input) THEN 0
  ELSE (input[k] + 1) * k + HashBytes(input, k + 1)

\* tmin.rs:82-84,147-149: AHasher with fixed keys over the input, a function
\* of the input with a range smaller than the inputs (two inputs can share
\* a hash).
AHash(input) == (Len(input) + 2 * HashBytes(input, 1)) % 5

\* A feedback that finds every execution interesting.
is_interesting_Always(obs_hash, orig_hash) == TRUE

\* tmin.rs:348: MapEqualityFeedback::is_interesting.
is_interesting(obs_hash, orig_hash) == obs_hash = orig_hash

\* A test that also lets inputs of the same length through.
is_shorter_OrEqual(input, before_len) == Len(input) <= before_len

\* tmin.rs:109: `input.len() < before_len`.
is_shorter(input, before_len) == Len(input) < before_len

\* The iterations the model lets the loop make: one more than the largest
\* number the entry and the runs allow.
MaxIterations == (MaxInputLen + 1) * MaxRuns + 1

\* The fallible calls of perform_minification, in the order of the code.
StartFailures == {"load_input", "execute_input"}

LoopFailures ==
  {"mutate", "execute_input", "process_execution", "is_interesting",
   "post_exec"}

\* The failures of the calls made only for a shorter input (tmin.rs:111-125).
ExecutedFailures == {"execute_input", "process_execution", "is_interesting"}

EndFailures == {"append_metadata", "replace", "on_replace"}

\* A stage built with `runs` (tmin.rs:279-286) is about to minimise the
\* corpus entry at base_corpus_idx in a state with some max_size.
InitTMin ==
  /\ options \in Configs
  /\ allocations = EmptyMap
  /\ allocation_queue = EmptyMap
  /\ mappings = EmptyMap
  /\ shadow = EmptyMap
  /\ largest_allocation = 0
  /\ total_allocation_size = 0
  /\ current_mapping_addr = base_mapping_addr
  /\ errors = <<>>
  /\ panicked = FALSE
  /\ last = NoCall
  /\ released_then_reset = 0
  /\ released_size = 0
  /\ probe = NoProbe
  /\ helper = NoHelper
  /\ \E runs \in 1 .. MaxRuns, entry \in Inputs, max_size \in MaxSizes :
       fuzzer = [phase |-> "tmin", runs |-> runs,
                 corpus_entry |-> entry, max_size |-> max_size,
                 original |-> entry, entry_max_size |-> max_size,
                 orig_max_size |-> 0, num |-> 0, base |-> <<>>,
                 base_hash |-> 0, orig_hash |-> 0, i |-> 0,
                 iterations |-> 0, resets |-> 0,
                 mutated_len |-> 0, executed |-> FALSE, obs_hash |-> 0,
                 replaced |-> 0, on_replace |-> 0,
                 result |-> [kind |-> "none"]]

\* `?` on an Err: perform_minification returns it at once.
TMinReturnErr(f, call) == [f EXCEPT !.phase = "returned", !.result = Err(call)]

\* perform_minification up to the loop (tmin.rs:71-92): the base is loaded
\* and hashed, executed once, and the feedback records the hash of the map
\* that execution left in the observer.
perform_minification_start(obs_hash, fail) ==
  /\ fuzzer.phase = "tmin"
  /\ fuzzer' =
       LET f1 == [fuzzer EXCEPT !.orig_max_size = fuzzer.max_size,
                                !.num = fuzzer.runs]
       IN IF fail \in StartFailures THEN TMinReturnErr(f1, fail)
          ELSE [f1 EXCEPT !.phase = "loop",
                          !.base = fuzzer.corpus_entry,
                          !.base_hash = AHash(fuzzer.corpus_entry),
                          !.obs_hash = obs_hash,
                          !.orig_hash = obs_hash,
                          !.i = 0]
  /\ UNCHANGED <<options, allocator, errors, panicked, last,
                 released_then_reset, released_size, probe, helper>>

\* One iteration of the loop (tmin.rs:93-145).  `mutated` is what the
\* mutator made of a clone of the base, obs_hash the hash of the map after
\* the execution of it, `fail` the call that returns Err, if any.
perform_minification_loop(mutated, obs_hash, fail) ==
  /\ fuzzer.phase = "loop"
  /\ fuzzer.i < fuzzer.num
  /\ fuzzer.iterations < MaxIterations
  /\ LET before_len == Len(fuzzer.base)
         run == is_shorter(mutated, before_len)
         accept == run /\ is_interesting(obs_hash, fuzzer.orig_hash)
         f1 == [fuzzer EXCEPT !.max_size = before_len,
                              !.iterations = @ + 1,
                              !.mutated_len = Len(mutated),
                              !.executed = FALSE]
         f2 == [f1 EXCEPT !.executed = run,
                          !.obs_hash = IF run THEN obs_hash ELSE @]
         f3 == [f2 EXCEPT !.base = IF accept THEN mutated ELSE @,
                          !.resets = IF accept THEN @ + 1 ELSE @]
     IN /\ fail \in ExecutedFailures => run
        /\ fuzzer' =
             IF fail = "mutate" THEN TMinReturnErr(f1, fail)
             ELSE IF fail \in {"execute_input", "process_execution",
                               "is_interesting"}
             THEN TMinReturnErr(f2, fail)
             ELSE IF fail = "post_exec" THEN TMinReturnErr(f3, fail)
             ELSE [f3 EXCEPT !.i = IF accept THEN 0 ELSE @ + 1]
  /\ UNCHANGED <<options, allocator, errors, panicked, last,
                 released_then_reset, released_size, probe, helper>>

\* perform_minification after the loop (tmin.rs:94-96,147-163).
perform_minification_end(fail) ==
  /\ fuzzer.phase = "loop"
  /\ fuzzer.i >= fuzzer.num
  /\ LET changed == fuzzer.base_hash # AHash(fuzzer.base)
         f1 == [fuzzer EXCEPT !.corpus_entry = fuzzer.base,
                              !.replaced = @ + 1]
         f2 == [f1 EXCEPT !.on_replace = @ + 1]
     IN /\ fail \in EndFailures => changed
        /\ fuzzer' =
             IF fail \in {"append_metadata", "replace"}
             THEN TMinReturnErr(fuzzer, fail)
             ELSE IF fail = "on_replace" THEN TMinReturnErr(f2, fail)
             ELSE [(IF changed THEN f2 ELSE fuzzer) EXCEPT
                     !.max_size = fuzzer.orig_max_size,
                     !.phase = "returned",
                     !.result = Ok]
  /\ UNCHANGED <<options, allocator, errors, panicked, last,
                 released_then_reset, released_size, probe, helper>>

NextTMin ==
  \/ \E obs_hash \in MapHashes, fail \in StartFailures \cup {"none"} :
       perform_minification_start(obs_hash, fail)
  \/ \E mutated \in Inputs, obs_hash \in MapHashes,
        fail \in LoopFailures \cup {"none"} :
       perform_minification_loop(mutated, obs_hash, fail)
  \/ \E fail \in EndFailures \cup {"none"} : perform_minification_end(fail)

SpecTMin == InitTMin /\ [][NextTMin]_vars

\* Every call the stage makes returns: the stage is not suspended for ever.
SpecTMinFair == SpecTMin /\ WF_vars(NextTMin)

\* ================================================================= claims
\* The user pointers of the allocations that are live and not freed.
Live == {p \in DOMAIN allocations : ~allocations[p].freed}

\* The user pointers of the allocations that were released and not yet reset.
Freed == {p \in DOMAIN allocations : allocations[p].freed}

\* The shadow bytes that cover the user bytes [p, p + size).
ShadowBytes(p, size) ==
  map_to_shadow(p) .. (map_to_shadow(p) + (size + 7) \div 8 - 1)

\* The step is a call of `op` with argument `arg`.
Called(op, arg) == last'.op = op /\ last'.arg = arg

Entry(kind, addr) == [kind |-> kind, addr |-> addr]

\* C1: for every live allocation of requested size s > 0 at user pointer p,
\* check_shadow(p, s) returns true, whatever s is.
C1_LiveRegionAddressable ==
  \A p \in Live :
    allocations[p].size > 0 => check_shadow(p, allocations[p].size) = {"true"}

\* C2: for every live allocation of size s at p, the byte before and the byte
\* after the user region fail the shadow check.
C2_NeighboursPoisoned ==
  \A p \in Live :
    /\ check_shadow(p - 1, 1) = {"false"}
    /\ check_shadow(p + allocations[p].size, 1) = {"false"}

\* C3: a successful alloc(0) leaves a record with is_malloc_zero = true and
\* size 16 under the returned pointer, and check_shadow(p, 1) is true.
C3_MallocZero ==
  (last.op = "alloc" /\ last.arg = 0 /\ last.ret # 0) =>
    /\ last.ret \in DOMAIN allocations
    /\ allocations[last.ret].is_malloc_zero
    /\ allocations[last.ret].size = 16
    /\ check_shadow(last.ret, 1) = {"true"}

\* C4: while an allocation of size s at p is released and its mapping has not
\* been handed out again, every access [a, a + w) inside [p, p + s) fails
\* the shadow check.
C4_FreedRegionPoisoned ==
  \A p \in Freed :
    \A a \in p .. (p + allocations[p].size - 1) :
      \A w \in 1 .. (p + allocations[p].size - a) :
        check_shadow(a, w) = {"false"}

\* C5: release(p) of a known pointer pushes nothing when the record is not
\* freed and exactly one DoubleFree entry carrying p when it is; afterwards
\* the record is freed and the shadow of its user region is poisoned.
C5_DoubleFree ==
  [][\A p \in DOMAIN allocations :
       Called("release", p) =>
         /\ ~allocations[p].freed => errors' = errors
         /\ allocations[p].freed =>
              errors' = Append(errors, Entry("DoubleFree", p))
         /\ p \in DOMAIN allocations' /\ allocations'[p].freed
         /\ \A b \in ShadowBytes(p, allocations[p].size) :
              ShadowRead(shadow', b) = 0]_vars

\* C5 witness: the second release(p) has just pushed its DoubleFree entry.
C5_Witness ==
  /\ last.op = "release" /\ last.pushed = 1
  /\ last.arg \in Freed
  /\ errors = <<Entry("DoubleFree", last.arg)>>

\* C6: release(p) of a live p, reset(), release(p) pushes exactly one entry
\* in total, an UnallocatedFree carrying p, pushed by the second release;
\* when the second release follows the first directly the one entry is a
\* DoubleFree.
C6_ReleaseResetRelease ==
  [][/\ (Called("release", released_then_reset') /\ released_then_reset' # 0) =>
          /\ last.op = "reset" /\ last.pushed = 0
          /\ last'.pushed = 1
          /\ errors' = Append(errors, Entry("UnallocatedFree", last'.arg))
     /\ (last.op = "release" /\ last.pushed = 0 /\ last.arg # 0
           /\ Called("release", last.arg)) =>
          /\ last'.pushed = 1
          /\ errors' = Append(errors, Entry("DoubleFree", last.arg))]_vars

\* C6 witness: release(p), reset(), release(p) has just run.
C6_Witness ==
  /\ last.op = "release" /\ last.arg # 0
  /\ released_then_reset = last.arg
  /\ errors = <<Entry("UnallocatedFree", last.arg)>>

\* C7: release(p) of a non-null pointer that is no key of the live index
\* pushes exactly one UnallocatedFree entry carrying p and changes nothing
\* in the allocator.
C7_UnallocatedFree ==
  [][\A p \in Pointers :
       (Called("release", p) /\ p # 0 /\ p \notin DOMAIN allocations) =>
         /\ errors' = Append(errors, Entry("UnallocatedFree", p))
         /\ UNCHANGED allocator]_vars

\* C7 witness: a wild pointer was released while an allocation is live.
C7_Witness ==
  /\ last.op = "release" /\ last.arg = WildPtr
  /\ Live # {}
  /\ errors = <<Entry("UnallocatedFree", WildPtr)>>

\* C8: release(null) pushes no entry and changes nothing in the allocator.
C8_ReleaseNull ==
  [][Called("release", 0) => (errors' = errors /\ UNCHANGED allocator)]_vars

\* C8 witness: null was released while the live index holds a record.
C8_Witness ==
  /\ last.op = "release" /\ last.arg = 0
  /\ DOMAIN allocations # {}

\* C9: release(p) of a known pointer keeps the mappings, the keys of the live
\* index, the reuse queue, the counters and current_mapping_addr; in the
\* index only p's freed flag and release backtrace change, and in the shadow
\* only the bytes of [p, p + size).
C9_ReleaseRetains ==
  [][\A p \in DOMAIN allocations :
       Called("release", p) =>
         /\ UNCHANGED <<mappings, allocation_queue, total_allocation_size,
                        largest_allocation, current_mapping_addr>>
         /\ DOMAIN allocations' = DOMAIN allocations
         /\ \A k \in DOMAIN allocations \ {p} : allocations'[k] = allocations[k]
         /\ [allocations'[p] EXCEPT !.freed = allocations[p].freed,
               !.release_site_backtrace = allocations[p].release_site_backtrace]
              = allocations[p]
         /\ \A b \in (DOMAIN shadow \cup DOMAIN shadow')
                       \ ShadowBytes(p, allocations[p].size) :
              ShadowRead(shadow', b) = ShadowRead(shadow, b)]_vars

\* C9 witness: a live allocation was released with backtraces enabled; its
\* record and its mapping are still there.
C9_Witness ==
  /\ last.op = "release" /\ last.pushed = 0
  /\ last.arg \in Freed
  /\ allocations[last.arg].release_site_backtrace
  /\ (last.arg - page_size) \in DOMAIN mappings

C12_AllocNeverReports ==
  [][last'.op = "alloc" => errors' = errors]_vars

\* C12 witness: the registry holds an entry and an alloc has just returned
\* null because the mapping was refused.
C12_Witness ==
  /\ last.op = "alloc" /\ last.ret = 0 /\ last.refused
  /\ Len(errors) = 1

\* The least multiple of the page size that is not below s.
round_up_page(s) == ((s + page_size - 1) \div page_size) * page_size

\* C13: after p = alloc(s), release(p), reset(), an alloc(s') with s' no
\* larger than s rounded up to a page returns p again, also when s' is an
\* exact multiple of the page size.
C13_ReuseRoundTrip ==
  [][\A size \in Sizes :
       (/\ Called("alloc", size)
        /\ last.op = "reset"
        /\ released_then_reset # 0
        /\ size <= round_up_page(released_size)) =>
         last'.ret = released_then_reset]_vars

\* C14: right after reset() no record of the live index is freed, the
\* total-allocation counter is 0, and the shadow of the whole user region
\* of every allocation that was freed before the reset reads 0x00.
C14_ResetPostcondition ==
  [][last'.op = "reset" =>
       /\ \A k \in DOMAIN allocations' : ~allocations'[k].freed
       /\ total_allocation_size' = 0
       /\ \A p \in Freed :
            \A b \in ShadowBytes(p, allocations[p].size) :
              ShadowRead(shadow', b) = 0]_vars

\* C14 witness: reset() has just retired a released allocation.
C14_Witness ==
  /\ last.op = "reset" /\ released_then_reset # 0
  /\ released_then_reset \notin DOMAIN allocations
  /\ total_allocation_size = 0
  /\ \A b \in ShadowBytes(released_then_reset, released_size) :
       ShadowRead(shadow, b) = 0

\* C15: reset() keeps every allocation that is not freed in the live index,
\* under the same user pointer, with the same record and the same shadow
\* bytes; a release of it right after the reset pushes no error.
C15_ResetKeepsLive ==
  [][/\ last'.op = "reset" =>
          \A p \in Live :
            /\ p \in DOMAIN allocations'
            /\ allocations'[p] = allocations[p]
            /\ \A b \in ShadowBytes(p, allocations[p].size) :
                 ShadowRead(shadow', b) = ShadowRead(shadow, b)
     /\ \A p \in Live :
          (last.op = "reset" /\ Called("release", p)) =>
            (errors' = errors /\ last'.pushed = 0)]_vars

\* C15 witness: an allocation that outlived a reset() was then released
\* without an error.
C15_Witness ==
  /\ last.op = "release" /\ last.pushed = 0
  /\ last.arg \in Freed
  /\ total_allocation_size = 0
  /\ errors = <<>>

\* The positions of the reuse queue: a size class and an index in its list.
QueuePositions ==
  {q \in (DOMAIN allocation_queue) \X (1 .. Cardinality(DOMAIN mappings)) :
     q[2] <= Len(allocation_queue[q[1]])}

\* C16: in every reachable state each raw mapping is described by exactly
\* one record, in the live index under raw base + page_size or in the reuse
\* queue under its actual_size, never in both; queued records have size 0
\* and are not freed.
C16_OneRecordPerMapping ==
  /\ \A p \in DOMAIN allocations :
       /\ p = allocations[p].address + page_size
       /\ allocations[p].address \in DOMAIN mappings
  /\ \A q \in QueuePositions :
       LET metadata == allocation_queue[q[1]][q[2]]
       IN /\ metadata.actual_size = q[1]
          /\ metadata.size = 0
          /\ ~metadata.freed
          /\ metadata.address \in DOMAIN mappings
          /\ (metadata.address + page_size) \notin DOMAIN allocations
  /\ \A a \in DOMAIN mappings :
       Cardinality({p \in DOMAIN allocations : allocations[p].address = a})
         + Cardinality({q \in QueuePositions :
                          allocation_queue[q[1]][q[2]].address = a}) = 1

\* C16 witness: one mapping is in the reuse queue while the other, taken
\* back out of the queue by alloc(0), is in the live index.
C16_Witness ==
  /\ QueuePositions # {}
  /\ last.op = "alloc" /\ last.ret \in DOMAIN allocations
  /\ allocations[last.ret].is_malloc_zero

\* C18: every record of the live index, also one served from the reuse
\* queue with another size than before, has its user region inside its own
\* raw mapping with a whole guard page on each side: user pointer = raw
\* base + page_size and user pointer + size + page_size <= raw base +
\* actual_size.
C18_GuardPages ==
  \A p \in DOMAIN allocations :
    LET metadata == allocations[p]
    IN /\ metadata.address \in DOMAIN mappings
       /\ mappings[metadata.address] = metadata.actual_size
       /\ p = metadata.address + page_size
       /\ p + metadata.size + page_size
            <= metadata.address + metadata.actual_size

\* C18 witness: a mapping made for 16 bytes serves 3 bytes after a reset
\* while the other mapping is still in the live index.
C18_Witness ==
  /\ last.op = "alloc" /\ last.arg = 3 /\ last.ret \in Live
  /\ allocations[last.ret].actual_size = rounded_up_size(16)
  /\ Cardinality(DOMAIN allocations) = 2

\* The records of the live index, freed or not.
Records == {allocations[k] : k \in DOMAIN allocations}

\* The hints find_metadata is probed with: none, every raw base, every user
\* pointer and a pointer into a user region.
Hints ==
  {0, WildPtr} \cup DOMAIN mappings \cup {a + page_size : a \in DOMAIN mappings}

\* C19: after a successful alloc returning p, find_metadata(p, h) returns
\* the record of p for every hint h, whatever other records the live index
\* holds.
C19_FindAfterAlloc ==
  (last.op = "alloc" /\ last.ret # 0) =>
    \A h \in Hints : find_metadata(last.ret, h) = {allocations[last.ret]}

\* C19 witness: alloc has just returned p while the live index also holds a
\* freed record of the other mapping, whose raw base is one of the hints.
C19_Witness ==
  /\ last.op = "alloc" /\ last.ret \in Live
  /\ \E q \in Freed :
       /\ q # last.ret
       /\ allocations[q].address \in Hints
       /\ find_metadata(last.ret, allocations[q].address)
            = {allocations[last.ret]}

\* C20: find_metadata(ptr, hint_base) returns the record whose address is
\* hint_base whenever there is one, even if another record is closer to
\* ptr; without such a record it returns a record that minimises
\* |ptr - address|, and None only when the live index is empty.
C20_HintPreferred ==
  \A ptr \in Hints, hint_base \in Hints :
    LET hinted == {m \in Records : m.address = hint_base}
    IN IF hinted # {} THEN find_metadata(ptr, hint_base) = hinted
       ELSE IF Records = {} THEN find_metadata(ptr, hint_base) = {}
       ELSE \E m \in find_metadata(ptr, hint_base) :
              /\ m \in Records
              /\ \A o \in Records :
                   Abs(ptr - m.address) <= Abs(ptr - o.address)

\* C17: for every userspace address A and every shadow bit the
\* initialisation can choose among maxbit, maxbit-4, maxbit-3 and maxbit-2,
\* map_to_shadow(A) differs from A and lies in
\* [shadow_offset, shadow_offset + 2^shadow_bit).
C17_ShadowRange ==
  (probe.phase = "mapped" /\ probe.shadow_bit # 0) =>
    /\ probe.shadow # probe.address
    /\ probe.shadow_offset <= probe.shadow
    /\ probe.shadow < probe.shadow_offset + 2 ^ probe.shadow_bit

\* C21: the record stored under every key p of the live index has
\* address = p, the pointer the guest received, so that a Leak entry
\* carries that pointer.
C21_AddressIsUserPointer ==
  /\ \A p \in DOMAIN allocations : allocations[p].address = p
  /\ \A i \in 1 .. Len(errors) :
       errors[i].kind = "Leak" =>
         errors[i].addr \in {a + page_size : a \in DOMAIN mappings}

\* C22: check_for_leaks pushes exactly one Leak entry for each record of
\* the live index that is not freed, none for a freed or a queued record,
\* and leaves the allocator alone.
C22_CheckForLeaks ==
  [][last'.op = "check_for_leaks" =>
       /\ UNCHANGED allocator
       /\ Len(errors') = Len(errors) + Cardinality(Live)
       /\ SubSeq(errors', 1, Len(errors)) = errors
       /\ {errors'[i] : i \in (Len(errors) + 1) .. Len(errors')}
            = {Entry("Leak", allocations[p].address) : p \in Live}]_vars

\* C22 witness: the leak check has run on an index that holds one record
\* that outlived a reset() and one freed record, and pushed one entry.
C22_Witness ==
  /\ last.op = "check_for_leaks" /\ last.pushed = 1
  /\ Cardinality(Live) = 1 /\ Cardinality(Freed) = 1
  /\ total_allocation_size = 0
  /\ errors = <<Entry("Leak", allocations[CHOOSE p \in Live : TRUE].address)>>

\* C23: when none of the candidate shadow bits can be reserved, the
\* construction does not return: no allocator exists with shadow_bit = 0
\* and no shadow reservation.
C23_NoAllocatorWithoutShadow ==
  probe.phase \in {"new", "mapped"} =>
    ~(probe.shadow_bit = 0 /\ ~probe.pre_allocated_shadow)

\* C24 as claimed: a constructed helper has the range map of the harness
\* and the requested libraries, and init_all was called on every runtime
\* of the tuple with that range map and the module list, whatever cmplog,
\* asan and disable_coverage are.
C24_HelperInit_Claimed ==
  helper.phase \in {"built", "transformed"} =>
    /\ helper.ranges = BuiltRanges(helper.options)
    /\ helper.inits = init_all(helper.runtimes, 1, BuiltRanges(helper.options),
                               modules_to_instrument(helper.options))

\* C24 as amended: as claimed when cmplog or asan is set or coverage is not
\* disabled; with cmplog and asan unset and coverage disabled the range map
\* stays empty and init_all is not called.  The construction panics, with
\* no runtime initialised, exactly when the ranges would hold the fuzzer.
C24_HelperInit ==
  LET enabled == helper.options.cmplog \/ helper.options.asan
                   \/ ~helper.options.disable_coverage
  IN /\ helper.phase \in {"built", "transformed"} =>
          IF enabled
          THEN /\ helper.ranges = BuiltRanges(helper.options)
               /\ helper.inits =
                    init_all(helper.runtimes, 1, BuiltRanges(helper.options),
                             modules_to_instrument(helper.options))
               /\ Len(helper.inits) = Len(helper.runtimes)
          ELSE /\ helper.ranges = EmptyMap
               /\ helper.inits = <<>>
     /\ helper.phase = "panicked" =>
          /\ enabled
          /\ SelfNewAddress \in DOMAIN BuiltRanges(helper.options)
          /\ helper.inits = <<>>

\* C24 witness: coverage alone enables the stalker, and both runtimes of the
\* tuple were initialised with the ranges of the harness and the library.
C24_Witness ==
  /\ helper.phase = "built"
  /\ ~helper.options.cmplog /\ ~helper.options.asan
  /\ ~helper.options.disable_coverage
  /\ helper.runtimes = <<"CoverageRuntime", "AsanRuntime">>
  /\ Len(helper.inits) = 2
  /\ DOMAIN helper.inits[2].ranges = {0, 1, 2}

\* The addresses of the instructions the output stream keeps, in order.
KeptAddresses(output) ==
  LET kept == SelectSeq(output, LAMBDA e : e.kind = "keep")
  IN [i \in 1 .. Len(kept) |-> kept[i].address]

\* C25: the transformer callback keeps every instruction of the block in
\* the output exactly once and in the original order, instrumented or not,
\* whatever runtimes the tuple holds.
C25_KeepsEveryInstruction ==
  helper.phase = "transformed" =>
    KeptAddresses(helper.output) = helper.block

\* C25 witness: a block with an instrumented memory access and an
\* instruction outside every range went through a transformer with an
\* AsanRuntime; a shadow check was emitted and both instructions are kept.
C25_Witness ==
  /\ helper.phase = "transformed"
  /\ helper.block = <<OutsideAddress, 2>>
  /\ Len(helper.output) > 2
  /\ \E i \in DOMAIN helper.output : helper.output[i].kind = "shadow_check"
  /\ KeptAddresses(helper.output) = helper.block

\* C26: an execution that leaves the error registry non-empty is a
\* solution for the objective, as a crash or a timeout is; an execution
\* with an empty registry, no crash and no timeout is not.
C26_SanitizerViolationIsSolution ==
  (fuzzer.phase = "ready" /\ fuzzer.executions > 0) =>
    /\ errors # <<>> => fuzzer.is_solution
    /\ fuzzer.exit_kind \in {"Crash", "Timeout"} => fuzzer.is_solution
    /\ (errors = <<>> /\ fuzzer.exit_kind = "Ok") => ~fuzzer.is_solution

\* C27: for a live allocation of size s at p, an access that starts inside
\* [p, p + s) at a misaligned address and ends past p + s is rejected by
\* check_shadow (here for accesses of 8 bytes and more).
C27_MisalignedOverrunRejected ==
  \A p \in Live :
    \A a \in p .. (p + allocations[p].size - 1) :
      \A w \in 8 .. (allocations[p].size + 8) :
        (a % 8 # 0 /\ a + w > p + allocations[p].size) =>
          check_shadow(a, w) = {"false"}

\* C28: check_shadow never underflows its shadow-byte count: for every
\* address inside a live allocation, misaligned ones included, and every
\* size from 1 to 7 it has one defined result.
C28_NoUnderflow ==
  \A p \in Live :
    \A a \in p .. (p + allocations[p].size - 1) :
      \A w \in 1 .. 7 :
        check_shadow(a, w) \in {{"true"}, {"false"}}

\* The size classes of the reuse queue that can serve `size` bytes.
FittingClasses(size) ==
  {k \in DOMAIN allocation_queue :
     k >= rounded_up_size(size) /\ Len(allocation_queue[k]) > 0}

\* C29: an alloc that passes both caps reuses a queued mapping of the
\* smallest actual_size that is large enough, skipping classes whose list
\* is empty, and leaves the mappings alone; only when no queued mapping
\* fits does it map fresh memory at current_mapping_addr.
C29_SmallestFit ==
  [][\A size \in Sizes :
       (/\ Called("alloc", size)
        /\ ~ExceedsMaxAllocation(size)
        /\ ~ExceedsMaxTotalAllocation(size)) =>
         IF FittingClasses(size) # {}
         THEN /\ last'.ret # 0
              /\ allocations'[last'.ret].actual_size \in FittingClasses(size)
              /\ \A k \in FittingClasses(size) :
                   allocations'[last'.ret].actual_size <= k
              /\ \E q \in QueuePositions :
                   allocation_queue[q[1]][q[2]].address + page_size = last'.ret
              /\ UNCHANGED <<mappings, current_mapping_addr>>
         ELSE \/ last'.refused /\ last'.ret = 0
              \/ /\ last'.ret = current_mapping_addr + page_size
                 /\ DOMAIN mappings' = DOMAIN mappings \cup {current_mapping_addr}
                 /\ current_mapping_addr \notin DOMAIN mappings]_vars

\* C29 witness: with two mappings in the queue, a second alloc(3) found
\* the list of the smaller class empty and was served from the larger one.
C29_Witness ==
  /\ last.op = "alloc" /\ last.arg = 3 /\ last.ret \in Live
  /\ allocations[last.ret].actual_size > rounded_up_size(3)
  /\ rounded_up_size(3) \in DOMAIN allocation_queue
  /\ allocation_queue[rounded_up_size(3)] = <<>>

\* C30: a freshly mapped allocation of requested size s has actual_size =
\* round_up_page(s) + 2 * page_size, where round_up_page(s) is the least
\* multiple of the page size that is >= s.
C30_ActualSize ==
  (last.op = "alloc" /\ last.ret # 0 /\ allocation_queue = EmptyMap) =>
    allocations[last.ret].actual_size =
      round_up_page(allocations[last.ret].size) + 2 * page_size

\* The region [2^bit, 3 * 2^bit) intersects an occupied range of the probe.
IntersectsOccupied(bit) ==
  \E r \in DOMAIN probe.occupied_ranges :
    /\ 2 ^ bit < probe.occupied_ranges[r][2]
    /\ probe.occupied_ranges[r][1] < 3 * (2 ^ bit)

\* C31: the shadow bit fixed by initialisation is the first candidate whose
\* region [2^bit, 3 * 2^bit) intersects no occupied range and whose
\* reservation succeeds; a candidate whose region intersects an occupied
\* range is never selected.
C31_ShadowBitAvoidsOccupied ==
  probe.phase \in {"new", "mapped"} =>
    LET candidates == ShadowBitCandidates(MaxBitFrom(1, probe.userspace_max))
        suitable == {i \in 1 .. 4 : /\ probe.granted[i]
                                    /\ ~IntersectsOccupied(candidates[i])}
    IN /\ suitable # {} =>
            probe.shadow_bit =
              candidates[CHOOSE i \in suitable : \A j \in suitable : i <= j]
       /\ probe.pre_allocated_shadow => ~IntersectsOccupied(probe.shadow_bit)

\* The positions of the coverage bitmap updates in the output of the block.
CoverageUpdates ==
  {i \in DOMAIN helper.output : helper.output[i].kind = "coverage_mapping"}

\* C32: for each translated basic block the coverage bitmap update is
\* emitted at most once and at the first instruction of the block, that is
\* before any instruction is kept; a block whose first instruction lies
\* outside every instrumented range gets no coverage update.
C32_CoverageAtFirstInstruction ==
  helper.phase = "transformed" =>
    /\ Cardinality(CoverageUpdates) <= 1
    /\ \A i \in CoverageUpdates :
         /\ helper.output[i].address = helper.block[1]
         /\ \A j \in 1 .. (i - 1) : helper.output[j].kind # "keep"
    /\ helper.block[1] \notin DOMAIN helper.ranges => CoverageUpdates = {}

\* The positions of the tuple whose hook returns Err in this iteration.
FailingPositions ==
  {i \in DOMAIN helper.runtimes : helper.runtimes[i] \in helper.failing}

\* The position of the last runtime whose hook is called: the first one
\* that fails, the end of the tuple when none does.
LastCalled ==
  IF FailingPositions = {} THEN Len(helper.runtimes)
  ELSE CHOOSE i \in FailingPositions : \A j \in FailingPositions : i <= j

\* C33: pre_exec_all and post_exec_all call the hook of every runtime of
\* the tuple once, in tuple order, head first, up to and including the
\* first runtime whose hook returns Err; that error is the result and the
\* hooks after it are not called; without an error, and for the empty
\* tuple, the result is Ok.
C33_HooksInTupleOrder ==
  helper.phase \in {"pre_exec", "post_exec"} =>
    /\ helper.hooks = [i \in 1 .. LastCalled |->
                         [runtime |-> helper.runtimes[i],
                          hook |-> helper.phase]]
    /\ helper.result = IF FailingPositions = {} THEN Ok
                       ELSE Err(helper.runtimes[LastCalled])

\* C33 witness: in a tuple of three runtimes the hook of the second one
\* failed; two hooks were called and the error came back.
C33_Witness ==
  /\ helper.phase = "pre_exec"
  /\ Len(helper.runtimes) = 3
  /\ LastCalled = 2
  /\ Len(helper.hooks) = 2
  /\ helper.result = Err(helper.runtimes[2])

\* C34: the cell of the runtimes is never mutably borrowed twice at the
\* same time: no borrow_mut fails, the callback holds its borrow only while
\* it instruments one instruction and has released it before the next one,
\* and the callback runs only while no method of the helper holds a borrow.
C34_NoDoubleBorrow ==
  /\ ~helper.cell.error
  /\ helper.cell.borrows <= 1
  /\ helper.activity.kind = "idle" => helper.cell.borrows = 0
  /\ helper.activity.kind = "method" => helper.cell.borrows = 1
  /\ helper.activity.kind = "callback" =>
       helper.cell.borrows = (IF helper.activity.holding THEN 1 ELSE 0)

\* C34 witness: the callback holds its borrow for the second instruction of
\* a block after it held and released one for the first.
C34_Witness ==
  /\ helper.activity.kind = "callback"
  /\ helper.activity.i = 2
  /\ helper.activity.holding
  /\ helper.activity.block[1] \in DOMAIN helper.ranges
  /\ helper.cell.borrows = 1

\* C35: perform_minification terminates when every call it makes returns:
\* the base never grows, every reset of the iteration counter shortened it,
\* so there are at most len(original) resets and at most
\* (len(original) + 1) * runs iterations of the loop, and the stage returns.
C35_MinificationTerminates ==
  /\ [](fuzzer.phase \in {"loop", "returned"} =>
          /\ Len(fuzzer.base) <= Len(fuzzer.original)
          /\ fuzzer.resets + Len(fuzzer.base) <= Len(fuzzer.original)
          /\ fuzzer.iterations
               <= (Len(fuzzer.original) + 1) * fuzzer.runs)
  /\ <>(fuzzer.phase = "returned")

\* C35 witness: the stage returned Ok after the counter was reset twice,
\* each time for a shorter base.
C35_Witness ==
  /\ fuzzer.phase = "returned"
  /\ fuzzer.result = Ok
  /\ fuzzer.resets = 2
  /\ fuzzer.iterations > fuzzer.runs

C37_MaxSizeRestored ==
  fuzzer.phase = "returned" => fuzzer.max_size = fuzzer.entry_max_size

\* C38: whenever alloc returns null the allocator state is unchanged, the
\* total-allocation counter and current_mapping_addr included, also when
\* the null comes from a failed memory mapping after the caps were passed.
C38_NullLeavesStateUnchanged ==
  [][\A size \in Sizes :
       (Called("alloc", size) /\ last'.ret = 0 /\ ~panicked') =>
         UNCHANGED allocator]_vars

\* The raw mappings of the allocation records, live or queued.
RawRanges ==
  {[address |-> allocations[p].address,
    actual_size |-> allocations[p].actual_size] : p \in DOMAIN allocations}
  \cup {[address |-> allocation_queue[q[1]][q[2]].address,
         actual_size |-> allocation_queue[q[1]][q[2]].actual_size] :
           q \in QueuePositions}

C40_NoReuseBeforeReset ==
  [][/\ \A p \in DOMAIN allocations : Called("release", p) => p \in Freed'
     /\ \A p \in Freed :
          /\ last'.op = "alloc" => last'.ret # p
          /\ last'.op # "reset" => p \in Freed']_vars

\* C40 witness: an alloc was served from the reuse queue while a released
\* pointer was waiting for the next reset.
C40_Witness ==
  /\ last.op = "alloc"
  /\ last.ret \in Live
  /\ Freed # {}
  /\ allocation_queue # EmptyMap

====
